---- MODULE Spec2Model ----
(***************************************************************************)
(* Model of backend/main.go: a process that initialises a MySQL store      *)
(* (main, lines 24-97) and then serves HTTP requests, each handled by its  *)
(* own goroutine running the root handler (lines 68-87) and, on the        *)
(* submission path, submitServiceHandler (lines 99-136).                   *)
(*                                                                         *)
(* A handler's work on its own request and response writer is local to its *)
(* goroutine; the one object handlers share is the store behind db.  A     *)
(* handler is therefore three steps: ServeHTTP (everything up to the       *)
(* db.Exec call), DbExec (the store executes the INSERT) and Respond       *)
(* (everything after db.Exec returns).  Steps of different handlers        *)
(* interleave freely.                                                      *)
(***************************************************************************)
EXTENDS Integers, Sequences, FiniteSets, TLC

VARIABLES
    mainPc,       \* where main() is: "getenv", "open", "ping", "create", "listen", "serving", "fatal"
    env,          \* the process environment: MYSQL_URL
    db,           \* the global store handle: "nil" or "handle"
    startup,      \* the startup steps main() has completed, in order
    tableExists,  \* whether table solicitudes exists in the store
    solicitudes,  \* the rows of table solicitudes, in insertion order
    autoInc,      \* the table's AUTO_INCREMENT counter
    reqs          \* the requests: input, handler position and response of each

vars == <<mainPc, env, db, startup, tableExists, solicitudes, autoInc, reqs>>

(***************************************************************************)
(* Bounds and inputs                                                       *)
(***************************************************************************)
\* How many requests the server receives in one behaviour.
MaxRequests == 2

ReqIds == 1..MaxRequests

\* VARCHAR(255) of the three text columns.
MaxVarcharLen == 255

Methods == {"OPTIONS", "POST", "GET", "PUT"}

SubmitPath == "/submit-service"

Paths == {"/", SubmitPath}

\* A string of MaxVarcharLen + 1 = 256 characters.
LongNombre == "xxxxxxxxxxxxxxxxxxxxxxxxxxxxxxxxxxxxxxxxxxxxxxxxxxxxxxxxxxxxxxxxxxxxxxxxxxxxxxxxxxxxxxxxxxxxxxxxxxxxxxxxxxxxxxxxxxxxxxxxxxxxxxxxxxxxxxxxxxxxxxxxxxxxxxxxxxxxxxxxxxxxxxxxxxxxxxxxxxxxxxxxxxxxxxxxxxxxxxxxxxxxxxxxxxxxxxxxxxxxxxxxxxxxxxxxxxxxxxxxxxxxxxxxxxxxxxxx"

\* JSON values of an object's member.  JAbsent: the member is not there.
JAbsent == [t |-> "absent", s |-> ""]

JNull == [t |-> "null", s |-> ""]

JNumber == [t |-> "number", s |-> ""]

JString(str) == [t |-> "string", s |-> str]

JObject(n, t, s) == [kind |-> "object", nombre |-> n, telefono |-> t, servicio |-> s]

\* A body that is not one complete JSON value: cut short, or no bytes at all.
TruncatedBody == [kind |-> "truncated", nombre |-> JAbsent, telefono |-> JAbsent, servicio |-> JAbsent]

\* {"nombre":"Ana","telefono":"555-1234","servicio":"limpieza"}
ValidBody == JObject(JString("Ana"), JString("555-1234"), JString("limpieza"))

\* {"nombre":123}
WrongTypeBody == JObject(JNumber, JAbsent, JAbsent)

\* {}
EmptyObjectBody == JObject(JAbsent, JAbsent, JAbsent)

\* {"nombre":"Ana"}
OnlyNombreBody == JObject(JString("Ana"), JAbsent, JAbsent)

\* {"nombre":"Ana","telefono":null,"servicio":""}
NullAndEmptyBody == JObject(JString("Ana"), JNull, JString(""))

\* A complete payload whose nombre does not fit its column.
LongBody == JObject(JString(LongNombre), JString("555-1234"), JString("limpieza"))

Bodies == {TruncatedBody, ValidBody, WrongTypeBody, EmptyObjectBody, OnlyNombreBody, NullAndEmptyBody, LongBody}

(***************************************************************************)
(* Types of the program                                                    *)
(***************************************************************************)
\* type Solicitud struct: its zero value.
Solicitud == [Nombre |-> "", Telefono |-> "", Servicio |-> ""]

\* A fresh http.ResponseWriter: no header set, nothing written.
NewResponseWriter == [origin |-> "", methods |-> "", headers |-> "", ctype |-> "", status |-> 0, body |-> ""]

AllowHeadersValue == "Content-Type, Access-Control-Allow-Headers, Authorization, X-Requested-With"

\* A request slot before its request has arrived.
IdleReq == [pc |-> "idle", method |-> "", path |-> "", body |-> TruncatedBody,
            w |-> NewResponseWriter, solicitud |-> Solicitud,
            dispatched |-> FALSE, decoded |-> FALSE,
            execs |-> 0, execErr |-> "", log |-> <<>>]

(***************************************************************************)
(* net/http and encoding/json, as main.go uses them                        *)
(***************************************************************************)
\* w.WriteHeader(code) with no body written after it.
WriteHeader(w, code) == [w EXCEPT !.status = code]

HttpError_DropsHeaders(w, msg, code) ==
    [NewResponseWriter EXCEPT !.ctype = "text/plain; charset=utf-8", !.status = code, !.body = msg \o "\n"]

\* http.Error(w, msg, code): replaces Content-Type, writes the status and msg
\* followed by a newline; the other headers already set on w stay.
HttpError(w, msg, code) ==
    [w EXCEPT !.ctype = "text/plain; charset=utf-8", !.status = code, !.body = msg \o "\n"]

\* json.NewEncoder(w).Encode(map[string]string{"message": msg}): the first
\* write sends status 200 when no status was written before.
EncodeMessage(w, msg) ==
    [w EXCEPT !.status = IF w.status = 0 THEN 200 ELSE w.status,
              !.body = "{\"message\":\"" \o msg \o "\"}\n"]

\* How encoding/json stores one object member into a string field holding cur:
\* a JSON string is stored, null and an absent member leave the field as it
\* was, any other JSON type is an UnmarshalTypeError and leaves the field.
DecodeField(v, cur) == IF v.t = "string" THEN v.s ELSE cur

FieldTypeError(v) == v.t \notin {"string", "null", "absent"}

JsonDecode_IgnoresTypeErrors(body) ==
    [err |-> body.kind # "object",
     solicitud |-> IF body.kind # "object" THEN Solicitud
                   ELSE [Nombre |-> DecodeField(body.nombre, Solicitud.Nombre),
                         Telefono |-> DecodeField(body.telefono, Solicitud.Telefono),
                         Servicio |-> DecodeField(body.servicio, Solicitud.Servicio)]]

JsonDecode_RequiresFields(body) ==
    [err |-> \/ body.kind # "object"
             \/ \E v \in {body.nombre, body.telefono, body.servicio} : v.t # "string",
     solicitud |-> IF body.kind # "object" THEN Solicitud
                   ELSE [Nombre |-> DecodeField(body.nombre, Solicitud.Nombre),
                         Telefono |-> DecodeField(body.telefono, Solicitud.Telefono),
                         Servicio |-> DecodeField(body.servicio, Solicitud.Servicio)]]

\* json.NewDecoder(r.Body).Decode(&solicitud) into a zero Solicitud: the error
\* (a syntax error or EOF for a body that is no complete JSON value, a type
\* error for a member of the wrong JSON type) and the struct afterwards.
JsonDecode(body) ==
    [err |-> \/ body.kind # "object"
             \/ \E v \in {body.nombre, body.telefono, body.servicio} : FieldTypeError(v),
     solicitud |-> IF body.kind # "object" THEN Solicitud
                   ELSE [Nombre |-> DecodeField(body.nombre, Solicitud.Nombre),
                         Telefono |-> DecodeField(body.telefono, Solicitud.Telefono),
                         Servicio |-> DecodeField(body.servicio, Solicitud.Servicio)]]

(***************************************************************************)
(* The handlers, up to the call of db.Exec                                 *)
(***************************************************************************)
MsgMethodNotAllowed == "{\"message\": \"Método no permitido\"}"

MsgDecodeError == "{\"message\": \"Error al decodificar la solicitud JSON\"}"

MsgInsertError == "{\"message\": \"Error interno del servidor al guardar la solicitud\"}"

MsgSuccess == "Solicitud recibida con éxito!"

MsgWelcome == "Bienvenido a la API de servicios. Usa /submit-service para enviar datos."

IsPreflight_Never(method) == FALSE

\* r.Method == "OPTIONS" in the root handler.
IsPreflight(method) == method = "OPTIONS"

MethodNotAllowed_OnlyGet(method) == method = "GET"

\* r.Method != "POST" in submitServiceHandler.
MethodNotAllowed(method) == method # "POST"

\* The CORS headers the root handler sets on every response.
RootHeaders(w) ==
    [w EXCEPT !.origin = "*",
              !.methods = "POST, GET, OPTIONS, PUT, DELETE",
              !.headers = AllowHeadersValue]

\* The headers submitServiceHandler sets, over those of the root handler.
SubmitHeaders(w) ==
    [w EXCEPT !.origin = "*",
              !.methods = "POST, OPTIONS",
              !.headers = AllowHeadersValue,
              !.ctype = "application/json"]

\* log.Printf("Solicitud recibida para el servicio ...")
LogRecibida(s) == [msg |-> "Solicitud recibida", servicio |-> s.Servicio, nombre |-> s.Nombre, telefono |-> s.Telefono, err |-> ""]

\* log.Printf("Error al insertar en la base de datos: %v", err)
LogInsertError(err) == [msg |-> "Error al insertar en la base de datos", servicio |-> "", nombre |-> "", telefono |-> "", err |-> err]

\* submitServiceHandler(w, r) from its entry to the call of db.Exec, on the
\* request record r: either it has responded (pc "done") or it holds the
\* decoded solicitud and is about to call db.Exec (pc "exec").
submitServiceHandler(r) ==
    LET w == SubmitHeaders(r.w)
        d == JsonDecode(r.body)
    IN  IF r.method = "OPTIONS"
        THEN [r EXCEPT !.dispatched = TRUE, !.pc = "done", !.w = WriteHeader(w, 200)]
        ELSE IF MethodNotAllowed(r.method)
        THEN [r EXCEPT !.dispatched = TRUE, !.pc = "done", !.w = HttpError(w, MsgMethodNotAllowed, 405)]
        ELSE IF d.err
        THEN [r EXCEPT !.dispatched = TRUE, !.decoded = TRUE, !.pc = "done",
                       !.w = HttpError(w, MsgDecodeError, 400)]
        ELSE [r EXCEPT !.dispatched = TRUE, !.decoded = TRUE, !.pc = "exec", !.w = w,
                       !.solicitud = d.solicitud,
                       !.log = Append(r.log, LogRecibida(d.solicitud))]

\* The function registered for "/" (every path), on the request record r.
RootHandler(r) ==
    LET w == RootHeaders(r.w)
    IN  IF IsPreflight(r.method)
        THEN [r EXCEPT !.pc = "done", !.w = WriteHeader(w, 200)]
        ELSE IF r.path = SubmitPath
        THEN submitServiceHandler([r EXCEPT !.w = w])
        ELSE [r EXCEPT !.pc = "done", !.w = HttpError(w, MsgWelcome, 200)]

(***************************************************************************)
(* The store: table solicitudes behind the handle db                       *)
(***************************************************************************)
NewRow_Swapped(id, s, i) ==
    [id |-> id, nombre |-> s.Telefono, telefono |-> s.Nombre, servicio |-> s.Servicio, by |-> i]

\* The row INSERT INTO solicitudes (nombre, telefono, servicio) VALUES (?, ?, ?)
\* makes of the three arguments of db.Exec, in that order, with the id the
\* store assigns.  fecha_creacion is filled by the store and read by nothing.
\* by: the request whose db.Exec created the row (0: the row was in the table
\* when the process started); it is not a column.
NewRow(id, s, i) ==
    [id |-> id, nombre |-> s.Nombre, telefono |-> s.Telefono, servicio |-> s.Servicio, by |-> i]

Insert_Dedup(tab, row) ==
    IF \E k \in 1..Len(tab) : /\ tab[k].nombre = row.nombre
                              /\ tab[k].telefono = row.telefono
                              /\ tab[k].servicio = row.servicio
    THEN tab
    ELSE Append(tab, row)

\* INSERT: the table with the new row after its rows.
Insert(tab, row) == Append(tab, row)

NextAutoIncrement_Stuck(id) == id

\* id INT AUTO_INCREMENT PRIMARY KEY: the counter after an insert took id.
NextAutoIncrement(id) == id + 1

\* nombre, telefono, servicio VARCHAR(255): whether the three values fit.
FitsColumns(s) ==
    /\ Len(s.Nombre) <= MaxVarcharLen
    /\ Len(s.Telefono) <= MaxVarcharLen
    /\ Len(s.Servicio) <= MaxVarcharLen

ErrDataTooLong == "Error 1406: Data too long for column"

ErrInvalidConnection == "invalid connection"

\* What db.Exec(insertSQL, ...) can return for s: "" for nil, else the error.
\* The store may be unreachable at any call; a value longer than its column
\* is refused (MySQL's default strict sql_mode).  The call is one step: it
\* returns nil and the row is in the table, or an error and it is not.
ExecResults(s) ==
    {ErrInvalidConnection} \cup (IF FitsColumns(s) THEN {""} ELSE {ErrDataTooLong})

\* A row that other runs of the program left in the table.
OldRow == [id |-> 1, nombre |-> "Eva", telefono |-> "555-0000", servicio |-> "pintura", by |-> 0]

(***************************************************************************)
(* Initial states                                                          *)
(***************************************************************************)
Init ==
    /\ mainPc = "getenv"
    /\ env \in [MYSQL_URL : {"", "mysql://root@db/railway"}]
    /\ db = "nil"
    /\ startup = <<>>
    /\ \/ tableExists = FALSE /\ solicitudes = <<>> /\ autoInc = 1
       \/ tableExists = TRUE /\ solicitudes = <<OldRow>> /\ autoInc = 2
    /\ reqs = [i \in ReqIds |-> IdleReq]

(***************************************************************************)
(* main(): storage initialisation, then ListenAndServe                     *)
(***************************************************************************)
Step(name, ok) == [step |-> name, ok |-> ok]

\* log.Fatal / log.Fatalf: the process exits.
Fatal == mainPc' = "fatal"

\* dbURL := os.Getenv("MYSQL_URL"); if dbURL == "" { log.Fatal }
GetEnv ==
    /\ mainPc = "getenv"
    /\ startup' = Append(startup, Step("getenv", env.MYSQL_URL # ""))
    /\ IF env.MYSQL_URL = "" THEN Fatal ELSE mainPc' = "open"
    /\ UNCHANGED <<env, db, tableExists, solicitudes, autoInc, reqs>>

\* db, err = sql.Open("mysql", dbURL); if err != nil { log.Fatalf }
OpenDB ==
    /\ mainPc = "open"
    /\ \E err \in BOOLEAN :
        /\ startup' = Append(startup, Step("open", ~err))
        /\ IF err THEN Fatal /\ db' = "nil" ELSE mainPc' = "ping" /\ db' = "handle"
    /\ UNCHANGED <<env, tableExists, solicitudes, autoInc, reqs>>

PingDB_IgnoresError ==
    /\ mainPc = "ping"
    /\ \E err \in BOOLEAN :
        /\ startup' = Append(startup, Step("ping", ~err))
        /\ mainPc' = "create"
    /\ UNCHANGED <<env, db, tableExists, solicitudes, autoInc, reqs>>

\* err = db.Ping(); if err != nil { log.Fatalf }
PingDB ==
    /\ mainPc = "ping"
    /\ \E err \in BOOLEAN :
        /\ startup' = Append(startup, Step("ping", ~err))
        /\ IF err THEN Fatal ELSE mainPc' = "create"
    /\ UNCHANGED <<env, db, tableExists, solicitudes, autoInc, reqs>>

\* _, err = db.Exec(createTableSQL); if err != nil { log.Fatalf }
\* CREATE TABLE IF NOT EXISTS leaves an existing table and its rows alone.
CreateTable ==
    /\ mainPc = "create"
    /\ \E err \in BOOLEAN :
        /\ startup' = Append(startup, Step("create", ~err))
        /\ IF err THEN Fatal /\ UNCHANGED tableExists
                  ELSE mainPc' = "listen" /\ tableExists' = TRUE
    /\ UNCHANGED <<env, db, solicitudes, autoInc, reqs>>

\* http.HandleFunc("/", ...); log.Fatal(http.ListenAndServe(...)): serves, or
\* fails to listen.  The port (PORT, or 8080) decides nothing else.
Listen ==
    /\ mainPc = "listen"
    /\ \E err \in BOOLEAN :
        /\ startup' = Append(startup, Step("listen", ~err))
        /\ IF err THEN Fatal ELSE mainPc' = "serving"
    /\ UNCHANGED <<env, db, tableExists, solicitudes, autoInc, reqs>>

(***************************************************************************)
(* A request's handler                                                     *)
(***************************************************************************)
\* The server accepts request i and its goroutine runs the root handler up to
\* its response or to the call of db.Exec.  Requests are numbered as they come.
ServeHTTP(i) ==
    /\ mainPc = "serving"
    /\ reqs[i].pc = "idle"
    /\ IF i = 1 THEN TRUE ELSE reqs[i - 1].pc # "idle"
    /\ \E method \in Methods, path \in Paths, body \in Bodies :
        reqs' = [reqs EXCEPT ![i] =
                    RootHandler([IdleReq EXCEPT !.method = method, !.path = path, !.body = body])]
    /\ UNCHANGED <<mainPc, env, db, startup, tableExists, solicitudes, autoInc>>

\* _, err = db.Exec(insertSQL, solicitud.Nombre, solicitud.Telefono, solicitud.Servicio)
DbExec(i) ==
    /\ mainPc = "serving"
    /\ reqs[i].pc = "exec"
    /\ \E err \in ExecResults(reqs[i].solicitud) :
        /\ reqs' = [reqs EXCEPT ![i].pc = "respond", ![i].execs = @ + 1, ![i].execErr = err]
        /\ IF err = ""
           THEN /\ solicitudes' = Insert(solicitudes, NewRow(autoInc, reqs[i].solicitud, i))
                /\ autoInc' = NextAutoIncrement(autoInc)
           ELSE UNCHANGED <<solicitudes, autoInc>>
    /\ UNCHANGED <<mainPc, env, db, startup, tableExists>>

InsertErrorBody_Leaks(err) == "{\"message\": \"" \o err \o "\"}"

\* The body of the 500 response after db.Exec returned err.
InsertErrorBody(err) == MsgInsertError

\* submitServiceHandler after db.Exec returned: log and 500, or the success message.
Respond(i) ==
    /\ mainPc = "serving"
    /\ reqs[i].pc = "respond"
    /\ reqs' = [reqs EXCEPT ![i] =
            IF reqs[i].execErr # ""
            THEN [@ EXCEPT !.pc = "done",
                           !.log = Append(@, LogInsertError(reqs[i].execErr)),
                           !.w = HttpError(@, InsertErrorBody(reqs[i].execErr), 500)]
            ELSE [@ EXCEPT !.pc = "done", !.w = EncodeMessage(@, MsgSuccess)]]
    /\ UNCHANGED <<mainPc, env, db, startup, tableExists, solicitudes, autoInc>>

Next ==
    \/ GetEnv
    \/ OpenDB
    \/ PingDB
    \/ CreateTable
    \/ Listen
    \/ \E i \in ReqIds : ServeHTTP(i)
    \/ \E i \in ReqIds : DbExec(i)
    \/ \E i \in ReqIds : Respond(i)

Spec == Init /\ [][Next]_vars

(***************************************************************************)
(* Vocabulary of the properties                                            *)
(***************************************************************************)
Arrived(i) == reqs[i].pc # "idle"

Done(i) == reqs[i].pc = "done"

PostToSubmit(i) == Arrived(i) /\ reqs[i].method = "POST" /\ reqs[i].path = SubmitPath

\* db.Exec of request i returned nil.
Inserted(i) == reqs[i].execs = 1 /\ reqs[i].execErr = "" /\ reqs[i].pc \in {"respond", "done"}

\* db.Exec of request i returned an error.
InsertFailed(i) == reqs[i].execs >= 1 /\ reqs[i].execErr # ""

\* The positions of the rows request i created.
RowsBy(i) == {k \in 1..Len(solicitudes) : solicitudes[k].by = i}

Members(body) == {body.nombre, body.telefono, body.servicio}

\* A JSON object with the three members, each a non-empty string.
ValidPayload(body) ==
    /\ body.kind = "object"
    /\ \A v \in Members(body) : v.t = "string" /\ v.s # ""

\* A body that is no complete JSON value, or an object with a member of a type
\* that is neither string nor null.
Undecodable(body) ==
    \/ body.kind = "truncated"
    \/ \E v \in Members(body) : v.t = "number"

\* The text a member gives its column: its string, or "" when it is absent or null.
MemberText(v) == IF v.t = "string" THEN v.s ELSE ""

RowHolds(k, body) ==
    /\ solicitudes[k].nombre = MemberText(body.nombre)
    /\ solicitudes[k].telefono = MemberText(body.telefono)
    /\ solicitudes[k].servicio = MemberText(body.servicio)

SuccessBody == "{\"message\":\"Solicitud recibida con éxito!\"}\n"

\* The rows of the table before a step are, unchanged and in place, the first
\* rows of the table after it.
RowsKept == /\ Len(solicitudes') >= Len(solicitudes)
            /\ SubSeq(solicitudes', 1, Len(solicitudes)) = solicitudes

NoStoreUse(i) == reqs[i].execs = 0 /\ RowsBy(i) = {}

(***************************************************************************)
(* C1                                                                      *)
(***************************************************************************)
C1_State ==
    \A i \in ReqIds :
        (PostToSubmit(i) /\ ValidPayload(reqs[i].body) /\ Inserted(i)) =>
            /\ Cardinality(RowsBy(i)) = 1
            /\ \A k \in RowsBy(i) : RowHolds(k, reqs[i].body)
            /\ Done(i) => reqs[i].w.status = 200 /\ reqs[i].w.body = SuccessBody

C1_Step ==
    \A i \in ReqIds :
        (/\ PostToSubmit(i) /\ ValidPayload(reqs[i].body)
         /\ reqs[i].pc = "exec" /\ reqs'[i].pc = "respond" /\ reqs'[i].execErr = "") =>
            /\ Len(solicitudes') = Len(solicitudes) + 1
            /\ RowsKept
            /\ solicitudes'[Len(solicitudes')].by = i

\* C1: a POST to /submit-service with a valid payload (three non-empty string
\* members) whose insert succeeds is answered 200 with the success message, and
\* the insert adds exactly one row, holding the request's three fields, after
\* the rows that were there, which stay as they were.
C1_ValidPostAddsOneRow == []C1_State /\ [][C1_Step]_vars

C1_Witness ==
    \E i \in ReqIds :
        /\ PostToSubmit(i) /\ ValidPayload(reqs[i].body) /\ Inserted(i) /\ Done(i)
        /\ reqs[i].w.status = 200
        /\ Len(solicitudes) >= 2
        /\ \E k \in RowsBy(i) : solicitudes[k].nombre = "Ana" /\ solicitudes[k].telefono = "555-1234"

(***************************************************************************)
(* C2                                                                      *)
(***************************************************************************)
\* C2: a POST to /submit-service whose body fails JSON decoding (truncated, or
\* a member of the wrong type) is answered 400; db.Exec is never called for it
\* and it adds no row.
C2_MalformedPostIs400 ==
    \A i \in ReqIds :
        (PostToSubmit(i) /\ Undecodable(reqs[i].body)) =>
            /\ Done(i)
            /\ reqs[i].w.status = 400
            /\ NoStoreUse(i)

C2_Witness ==
    \E i \in ReqIds :
        /\ PostToSubmit(i) /\ reqs[i].body = WrongTypeBody
        /\ reqs[i].w.status = 400 /\ reqs[i].decoded

(***************************************************************************)
(* C3                                                                      *)
(***************************************************************************)
\* C3: a request to /submit-service with a method other than POST and OPTIONS
\* is answered 405 whatever its body; the body is not decoded and the store is
\* not used.
C3_OtherMethodIs405 ==
    \A i \in ReqIds :
        (Arrived(i) /\ reqs[i].path = SubmitPath /\ reqs[i].method \notin {"POST", "OPTIONS"}) =>
            /\ Done(i)
            /\ reqs[i].w.status = 405
            /\ ~reqs[i].decoded
            /\ NoStoreUse(i)

C3_Witness ==
    \E i, j \in ReqIds :
        /\ reqs[i].path = SubmitPath /\ reqs[i].method = "GET" /\ reqs[i].body = ValidBody
        /\ reqs[j].path = SubmitPath /\ reqs[j].method = "PUT" /\ reqs[j].body = TruncatedBody
        /\ reqs[i].w.status = 405 /\ reqs[j].w.status = 405

(***************************************************************************)
(* C4                                                                      *)
(***************************************************************************)
\* C4: an OPTIONS request, on any path, is answered 200 with an empty body by
\* the root handler, before the path is looked at and before any decoding, and
\* the store is not used.
C4_OptionsIsEmpty200 ==
    \A i \in ReqIds :
        (Arrived(i) /\ reqs[i].method = "OPTIONS") =>
            /\ Done(i)
            /\ reqs[i].w.status = 200
            /\ reqs[i].w.body = ""
            /\ ~reqs[i].dispatched
            /\ ~reqs[i].decoded
            /\ NoStoreUse(i)

C4_Witness ==
    \E i, j \in ReqIds :
        /\ reqs[i].method = "OPTIONS" /\ reqs[i].path = SubmitPath /\ reqs[i].body = ValidBody
        /\ reqs[j].method = "OPTIONS" /\ reqs[j].path = "/"
        /\ Done(i) /\ Done(j)

(***************************************************************************)
(* C5                                                                      *)
(***************************************************************************)
\* C5: when db.Exec fails for a POST, the response is 500 with one fixed body,
\* the same for every error and without the error's text; the error is logged;
\* no status is written before the 500 (so no 200); db.Exec was called once.
C5_InsertFailureIs500 ==
    \A i \in ReqIds :
        InsertFailed(i) =>
            /\ PostToSubmit(i)
            /\ reqs[i].execs = 1
            /\ reqs[i].pc = "respond" => reqs[i].w.status = 0
            /\ Done(i) =>
                /\ reqs[i].w.status = 500
                /\ reqs[i].w.body = MsgInsertError \o "\n"
                /\ \E n \in 1..Len(reqs[i].log) : reqs[i].log[n] = LogInsertError(reqs[i].execErr)

C5_Witness ==
    \E i, j \in ReqIds :
        /\ Done(i) /\ reqs[i].execErr = ErrInvalidConnection /\ reqs[i].body = ValidBody
        /\ Done(j) /\ reqs[j].execErr = ErrDataTooLong
        /\ reqs[i].w.body = reqs[j].w.body

(***************************************************************************)
(* C6                                                                      *)
(***************************************************************************)
C6_State ==
    /\ \A i, j \in ReqIds :
        (/\ i # j
         /\ PostToSubmit(i) /\ PostToSubmit(j)
         /\ ValidPayload(reqs[i].body) /\ reqs[j].body = reqs[i].body
         /\ Inserted(i) /\ Inserted(j)) =>
            /\ \E k \in RowsBy(i), l \in RowsBy(j) :
                /\ k # l
                /\ solicitudes[k].id # solicitudes[l].id
                /\ RowHolds(k, reqs[i].body)
                /\ RowHolds(l, reqs[i].body)
            /\ Done(i) => reqs[i].w.status = 200
            /\ Done(j) => reqs[j].w.status = 200
    /\ Cardinality({k \in 1..Len(solicitudes) : solicitudes[k].by # 0})
          = Cardinality({i \in ReqIds : Inserted(i)})

\* A step changes the record of at most one request, and the handle db is not
\* assigned once the server serves.
C6_Step ==
    /\ \A i, j \in ReqIds : (i # j /\ reqs'[i] # reqs[i]) => reqs'[j] = reqs[j]
    /\ mainPc = "serving" => db' = db

\* C6: two POSTs to /submit-service with the same valid payload whose inserts
\* succeed, in whatever order their handlers' steps interleave, are both
\* answered 200 and leave two rows with the same three fields and different
\* ids; every successful insert has its row; a handler's step touches no other
\* request's state.
C6_IdenticalPostsTwoRows == []C6_State /\ [][C6_Step]_vars

\* The request that came second inserted first, and both were answered.
C6_Witness ==
    /\ reqs[1].body = ValidBody /\ reqs[2].body = ValidBody
    /\ PostToSubmit(1) /\ PostToSubmit(2)
    /\ Done(1) /\ Done(2)
    /\ reqs[1].w.status = 200 /\ reqs[2].w.status = 200
    /\ \E k \in RowsBy(1), l \in RowsBy(2) : l < k

(***************************************************************************)
(* C7                                                                      *)
(***************************************************************************)
\* C7: every response sent carries Access-Control-Allow-Origin: * and the
\* headers Access-Control-Allow-Methods and Access-Control-Allow-Headers.
C7_CorsOnEveryResponse ==
    \A i \in ReqIds :
        reqs[i].w.status # 0 =>
            /\ reqs[i].w.origin = "*"
            /\ reqs[i].w.methods # ""
            /\ reqs[i].w.headers # ""

C7_Witness ==
    \E i, j \in ReqIds :
        /\ reqs[i].w.status = 500 /\ reqs[i].w.origin = "*"
        /\ reqs[j].w.status \in {400, 405} /\ reqs[j].w.origin = "*"

(***************************************************************************)
(* C8                                                                      *)
(***************************************************************************)
C8_State ==
    /\ \A k, l \in 1..Len(solicitudes) : solicitudes[k].id = solicitudes[l].id => k = l
    /\ \A k \in 1..Len(solicitudes) :
        solicitudes[k].by # 0 =>
            /\ PostToSubmit(solicitudes[k].by)
            /\ Inserted(solicitudes[k].by)
    /\ \A i \in ReqIds : Cardinality(RowsBy(i)) <= 1

C8_Step ==
    /\ RowsKept
    /\ Len(solicitudes') <= Len(solicitudes) + 1

\* C8: rows are only appended: a step leaves every row in place and unchanged
\* and adds at most one; ids are unique among the rows; every row made while
\* the server runs was made by the one successful db.Exec of one POST to
\* /submit-service, and no request made two rows.
C8_RowsAppendOnly == []C8_State /\ [][C8_Step]_vars

C8_Witness ==
    /\ Len(solicitudes) = 3
    /\ solicitudes[1].by = 0
    /\ solicitudes[2].by # 0
    /\ solicitudes[3].by # 0
    /\ solicitudes[2].id # solicitudes[3].id

(***************************************************************************)
(* C9                                                                      *)
(***************************************************************************)
StartupOk == <<Step("getenv", TRUE), Step("open", TRUE), Step("ping", TRUE), Step("create", TRUE)>>

StartupOrder == <<"getenv", "open", "ping", "create", "listen">>

\* C9: a request is handled (and db.Exec called) only after the connection
\* string was found, the connection opened, the ping and the table creation
\* succeeded, in that order, each done once; when a step fails, the process is
\* terminated, no later step runs and no request is ever handled.
C9_InitBeforeServing ==
    /\ Len(startup) <= Len(StartupOrder)
    /\ \A n \in 1..Len(startup) : startup[n].step = StartupOrder[n]
    /\ (\E i \in ReqIds : Arrived(i)) =>
        /\ mainPc = "serving"
        /\ Len(startup) = 5
        /\ SubSeq(startup, 1, 4) = StartupOk
        /\ db = "handle" /\ tableExists
    /\ (\E n \in 1..Len(startup) : ~startup[n].ok) =>
        /\ mainPc = "fatal"
        /\ ~startup[Len(startup)].ok
        /\ \A i \in ReqIds : ~Arrived(i)
    /\ mainPc = "fatal" => ~ENABLED Next

C9_Witness ==
    /\ \E i \in ReqIds : Done(i) /\ Inserted(i)
    /\ SubSeq(startup, 1, 4) = StartupOk

(***************************************************************************)
(* C10                                                                     *)
(***************************************************************************)
AllMembersPresent(body) ==
    /\ body.kind = "object"
    /\ \A v \in Members(body) : v.t # "absent"

====
